---- MODULE Spec2Model ----
(***************************************************************************)
(* Array32Index (array/index_by_bitmap.go): a bitmap index that maps a     *)
(* sparse, ascending set of int32 keys to dense positions.                 *)
(*                                                                         *)
(* A uint64 bitmap word is modelled as the set of its set bit positions    *)
(* (a subset of 0..63).  A Go slice is modelled as a record                *)
(* [len, at]: its length and the function from the indices that hold a     *)
(* non-zero value to that value (every other index below len holds the     *)
(* zero value make() gave it), so that a slice of 2^25 words is a small    *)
(* value.  int32 arithmetic wraps as Go's does.  A Go run-time panic       *)
(* (index out of range, makeslice: len out of range) is an outcome of its  *)
(* own: "panic".                                                           *)
(***************************************************************************)
EXTENDS Integers, Sequences, FiniteSets

VARIABLES
    Bitmaps,   \* a.Bitmaps []uint64
    Offsets,   \* a.Offsets []int32
    Cnt,       \* a.Cnt int32
    pc,        \* "idle": no call in progress; "loop": inside InitIndexBitmap's for loop
    index,     \* the argument of the current / last InitIndexBitmap call
    i,         \* the loop variable of InitIndexBitmap
    nxt,       \* the local nxt of InitIndexBitmap
    err,       \* outcome of the last InitIndexBitmap call: "none" (running / never called), "nil", "ErrIndexNotAscending", "panic"
    fresh,     \* TRUE while the current / last InitIndexBitmap call is the first one on the zero-valued struct
    Cnt0,      \* a.Cnt at the entry of the current / last InitIndexBitmap call
    q          \* the last query call and what it returned

vars == <<Bitmaps, Offsets, Cnt, pc, index, i, nxt, err, fresh, Cnt0, q>>

(***************************************************************************)
(* Bounds of the model.                                                    *)
(***************************************************************************)
\* longest key list given to InitIndexBitmap
MaxLen == 3
\* longest key list given to a later InitIndexBitmap call on the same struct
MaxRebuildLen == 2
\* InitIndexBitmap is called again only while a.Cnt is at most this
MaxCnt0 == 2

(***************************************************************************)
(* int32                                                                   *)
(***************************************************************************)
MaxInt32 == 2147483647
MinInt32 == -2147483647 - 1

\* int32 addition, wrapping (computed without leaving the int32 range)
Add32(a, b) ==
    IF a > 0 /\ b > 0 /\ b > MaxInt32 - a THEN (a + MinInt32) + (b + MinInt32)
    ELSE IF a < 0 /\ b < 0 /\ b < MinInt32 - a THEN (a - MinInt32) + (b - MinInt32)
    ELSE a + b

\* Go's integer division: truncated toward zero
TruncDiv(a, b) ==
    LET fl == a \div b
    IN  IF a < 0 /\ fl * b # a THEN fl + 1 ELSE fl

bmWidth == 64
bmMask == 63

\* idx & mask on a two's complement int32 (also for idx < 0), mask = 2^n - 1
AndMask(idx, mask) == idx % (mask + 1)

\* idx >> n on an int32: an arithmetic shift, which rounds toward minus infinity
ShiftRight6(idx) == idx \div 64

\* bmBit, lines 38-42
bmBit(idx) == <<ShiftRight6(idx), AndMask(idx, 63)>>

(***************************************************************************)
(* Slices                                                                  *)
(***************************************************************************)
ZeroWord == {}

\* make([]T, n) for n >= 0
MakeSlice(n) == [len |-> n, at |-> <<>>]

\* s[k] for 0 <= k < len(s)
At(s, k, zero) == IF k \in DOMAIN s.at THEN s.at[k] ELSE zero

\* s[k] = v for 0 <= k < len(s)
Store(s, k, v, zero) ==
    LET d == IF v = zero THEN DOMAIN s.at \ {k} ELSE DOMAIN s.at \cup {k}
    IN  [s EXCEPT !.at = [j \in d |-> IF j = k THEN v ELSE s.at[j]]]

InBounds(s, k) == 0 <= k /\ k < s.len

(***************************************************************************)
(* bits.OnesCount64Before(word, iBit): the number of set bits of word at   *)
(* positions below iBit.                                                   *)
(***************************************************************************)
OnesCount64Before(word, iBit) == Cardinality({b \in word : b < iBit})

(***************************************************************************)
(* Inputs                                                                  *)
(***************************************************************************)
BuildKeys == {-1, 0, 1, 63, 64, 130, 2147483583, 2147483584, MaxInt32}
QueryKeys == {MinInt32, -64, -1, 0, 1, 2, 63, 64, 65, 130, 192, 2147483583, MaxInt32}

RebuildKeys == {-1, 0, 1, 64, MaxInt32}

\* the argument of the first call on a struct, and of a later call
KeyLists == UNION {[1..n -> BuildKeys] : n \in 0..MaxLen}
RebuildLists == UNION {[1..n -> RebuildKeys] : n \in 0..MaxRebuildLen}

Init ==
    /\ Bitmaps = MakeSlice(0)
    /\ Offsets = MakeSlice(0)
    /\ Cnt = 0
    /\ pc = "idle"
    /\ index = <<>>
    /\ i = 0
    /\ nxt = 0
    /\ err = "none"
    /\ fresh = TRUE
    /\ Cnt0 = 0
    /\ q = [op |-> "none"]

(***************************************************************************)
(* InitIndexBitmap, lines 49-59: capacity, bmCnt, the two make() calls     *)
(* and nxt := 0.  make() panics on a negative length, before a.Bitmaps is  *)
(* assigned.                                                               *)
(***************************************************************************)
Capacity(ix) == IF Len(ix) > 0 THEN Add32(ix[Len(ix)], 1) ELSE 0

BmCnt(ix) == TruncDiv(Add32(Add32(Capacity(ix), bmWidth), -1), bmWidth)

InitStart(ix) ==
    /\ pc = "idle"
    /\ q.op = "none"
    /\ Cnt <= MaxCnt0
    /\ index' = ix
    /\ fresh' = (err = "none")
    /\ Cnt0' = Cnt
    /\ q' = [op |-> "none"]
    /\ i' = 0
    /\ nxt' = 0
    /\ UNCHANGED Cnt
    /\ IF BmCnt(ix) < 0
       THEN /\ pc' = "idle"
            /\ err' = "panic"
            /\ UNCHANGED <<Bitmaps, Offsets>>
       ELSE /\ Bitmaps' = MakeSlice(BmCnt(ix))
            /\ Offsets' = MakeSlice(BmCnt(ix))
            /\ pc' = "loop"
            /\ err' = "none"

(***************************************************************************)
(* appendIndex(k), lines 99-111, as the new <<Bitmaps, Offsets, Cnt>>;     *)
(* defined when the word index is in bounds.                               *)
(***************************************************************************)
\* appendIndex without the test of line 104: the offset is written on every insertion
appendOffsetsAlways(k) == Store(Offsets, bmBit(k)[1], Cnt, 0)

appendOffsets(k) ==
    LET iBm == bmBit(k)[1]
    IN  IF At(Bitmaps, iBm, ZeroWord) = ZeroWord
        THEN Store(Offsets, iBm, Cnt, 0)
        ELSE Offsets

appendBitmaps(k) ==
    LET iBm == bmBit(k)[1]
        iBit == bmBit(k)[2]
    IN  Store(Bitmaps, iBm, At(Bitmaps, iBm, ZeroWord) \cup {iBit}, ZeroWord)

appendCnt == Add32(Cnt, 1)

\* the loop's test: index[i] < nxt
NotAscending(k, n) == k < n

\* one pass of the for loop, lines 60-66, or its exit and return nil, line 67
InitStep ==
    /\ pc = "loop"
    /\ UNCHANGED <<index, fresh, Cnt0, q>>
    /\ IF i >= Len(index)
       THEN /\ pc' = "idle"
            /\ err' = "nil"
            /\ UNCHANGED <<Bitmaps, Offsets, Cnt, i, nxt>>
       ELSE LET k == index[i + 1]
            IN  IF NotAscending(k, nxt)
                THEN /\ pc' = "idle"
                     /\ err' = "ErrIndexNotAscending"
                     /\ UNCHANGED <<Bitmaps, Offsets, Cnt, i, nxt>>
                ELSE IF ~InBounds(Bitmaps, bmBit(k)[1])
                THEN /\ pc' = "idle"
                     /\ err' = "panic"
                     /\ UNCHANGED <<Bitmaps, Offsets, Cnt, i, nxt>>
                ELSE /\ Offsets' = appendOffsets(k)
                     /\ Bitmaps' = appendBitmaps(k)
                     /\ Cnt' = appendCnt
                     /\ nxt' = Add32(k, 1)
                     /\ i' = i + 1
                     /\ UNCHANGED <<pc, err>>

(***************************************************************************)
(* Queries.  A result is [panic, found, pos].                              *)
(***************************************************************************)
Panicked == [panic |-> TRUE, found |-> FALSE, pos |-> 0]
Returned(pos, found) == [panic |-> FALSE, found |-> found, pos |-> pos]

\* GetEltIndex counting the bits up to and including iBit
GetEltIndexInclusive(idx) ==
    LET iBm == bmBit(idx)[1]
        iBit == bmBit(idx)[2]
    IN  IF iBm >= Bitmaps.len THEN Returned(0, FALSE)
        ELSE IF ~InBounds(Bitmaps, iBm) THEN Panicked
        ELSE LET bmWord == At(Bitmaps, iBm, ZeroWord)
             IN  IF iBit \notin bmWord THEN Returned(0, FALSE)
                 ELSE Returned(Add32(At(Offsets, iBm, 0), OnesCount64Before(bmWord, iBit + 1)), TRUE)

\* lines 73-89
GetEltIndex(idx) ==
    LET iBm == bmBit(idx)[1]
        iBit == bmBit(idx)[2]
    IN  IF iBm >= Bitmaps.len THEN Returned(0, FALSE)
        ELSE IF ~InBounds(Bitmaps, iBm) THEN Panicked
        ELSE LET bmWord == At(Bitmaps, iBm, ZeroWord)
             IN  IF iBit \notin bmWord THEN Returned(0, FALSE)
                 ELSE Returned(Add32(At(Offsets, iBm, 0), OnesCount64Before(bmWord, iBit)), TRUE)

\* lines 92-95
Has(idx) ==
    LET iBm == TruncDiv(idx, bmWidth)
    IN  IF ~(iBm < Bitmaps.len) THEN Returned(0, FALSE)
        ELSE IF ~InBounds(Bitmaps, iBm) THEN Panicked
        ELSE Returned(0, AndMask(idx, bmMask) \in At(Bitmaps, iBm, ZeroWord))

\* a query that counts its calls in a.Cnt
QueryFrameCounting == Cnt' = Add32(Cnt, 1) /\ UNCHANGED <<Bitmaps, Offsets>>

\* lines 73-95 assign to no field of a
QueryFrame == UNCHANGED <<Bitmaps, Offsets, Cnt>>

CallGetEltIndex(k) ==
    /\ pc = "idle"
    /\ q' = [op |-> "GetEltIndex", key |-> k, res |-> GetEltIndex(k)]
    /\ QueryFrame
    /\ UNCHANGED <<pc, index, i, nxt, err, fresh, Cnt0>>

CallHas(k) ==
    /\ pc = "idle"
    /\ q' = [op |-> "Has", key |-> k, res |-> Has(k)]
    /\ QueryFrame
    /\ UNCHANGED <<pc, index, i, nxt, err, fresh, Cnt0>>

\* The client: InitIndexBitmap on the zero-valued struct, any further
\* InitIndexBitmap calls on the same struct, then any number of queries.
\* (A query leaves the struct as it is, QueryFrame, so a call of
\* InitIndexBitmap after a query starts from a struct already covered.)
Next ==
    \/ \E ix \in (IF err = "none" THEN KeyLists ELSE RebuildLists) : InitStart(ix)
    \/ InitStep
    \/ \E k \in QueryKeys : CallGetEltIndex(k)
    \/ \E k \in QueryKeys : CallHas(k)

Spec == Init /\ [][Next]_vars

(***************************************************************************)
(* Properties                                                              *)
(***************************************************************************)
StrictlyAscending(ix) == \A j \in 1..(Len(ix) - 1) : ix[j] < ix[j + 1]
NonNegative(ix) == \A j \in 1..Len(ix) : ix[j] >= 0
Keys(ix) == {ix[j] : j \in 1..Len(ix)}
\* the 0-based rank of k among the keys of ix
Rank(ix, k) == Cardinality({x \in Keys(ix) : x < k})
\* the keys whose bit is set in Bitmaps
PresentKeys == UNION {{b * 64 + j : j \in Bitmaps.at[b]} : b \in DOMAIN Bitmaps.at}
\* the last InitIndexBitmap call has returned / has returned nil
Finished == pc = "idle" /\ err # "none"
Built == pc = "idle" /\ err = "nil"
Outcome(r) == IF r.panic THEN "panic" ELSE IF r.found THEN "true" ELSE "false"

\* C1: after InitIndexBitmap returns nil on the zero-valued struct for a
\* strictly ascending list, GetEltIndex(k) returns (rank of k, true) for every
\* key k of the list and found = false for every non-negative key not in it.
C1_RoundTrip ==
    (Built /\ fresh /\ StrictlyAscending(index)) =>
        \A k \in QueryKeys \cup Keys(index) :
            IF k \in Keys(index)
            THEN GetEltIndex(k) = Returned(Rank(index, k), TRUE)
            ELSE k >= 0 => Outcome(GetEltIndex(k)) = "false"

\* a list of three keys in two words was built, and GetEltIndex was called on
\* its last key and on an absent key
C1_Witness ==
    /\ Built /\ fresh /\ StrictlyAscending(index) /\ Len(index) = 3
    /\ Cardinality(DOMAIN Bitmaps.at) = 2
    /\ q.op = "GetEltIndex" /\ q.key = index[3] /\ q.res = Returned(2, TRUE)
    /\ \E k \in QueryKeys : k >= 0 /\ k \notin Keys(index) /\ k \div 64 < Bitmaps.len

\* no key is so large that capacity or bmCnt wraps (lines 51 and 54)
NoWrap(ix) == \A j \in 1..Len(ix) : ix[j] <= MaxInt32 - bmWidth

\* C2: InitIndexBitmap returns ErrIndexNotAscending for every list that is
\* not strictly ascending, and ends in no other way (stated for the lists
\* whose keys are too small to make the capacity arithmetic wrap).
C2_Rejection ==
    (Finished /\ ~StrictlyAscending(index) /\ NoWrap(index)) =>
        err = "ErrIndexNotAscending"

\* C3: on a built struct Has and GetEltIndex return for every int32 key, and
\* report not-found for every key below 0 or beyond the last word.
C3_QueryTotal ==
    Built =>
        \A k \in QueryKeys :
            /\ ~Has(k).panic
            /\ ~GetEltIndex(k).panic
            /\ (k < 0 \/ k \div 64 >= Bitmaps.len) =>
                   (~Has(k).found /\ ~GetEltIndex(k).found)

\* C4: on a built struct Has(k) is the found flag of GetEltIndex(k), for
\* every int32 key.
C4_Consistency ==
    Built => \A k \in QueryKeys : Outcome(Has(k)) = Outcome(GetEltIndex(k))

\* C5: after InitIndexBitmap returns nil, Cnt is the number of present keys
\* and the positions GetEltIndex returns for them are exactly 0..Cnt-1.
C5_Density ==
    Built =>
        /\ Cnt = Cardinality(PresentKeys)
        /\ {GetEltIndex(k).pos : k \in PresentKeys} = 0..(Cnt - 1)

\* C6: InitIndexBitmap returns nil for every strictly ascending list of
\* non-negative int32 keys, with ceil((last key + 1) / 64) words allocated.
C6_BuildAccepts ==
    (Finished /\ StrictlyAscending(index) /\ NonNegative(index)) =>
        /\ err = "nil"
        /\ Bitmaps.len = (IF Len(index) = 0 THEN 0 ELSE index[Len(index)] \div 64 + 1)
        /\ Offsets.len = Bitmaps.len

\* the keys appendIndex has inserted in the current call
Inserted == {index[j] : j \in 1..i}
BlockBase ==
    /\ Cnt = i
    /\ \A b \in DOMAIN Bitmaps.at :
           At(Offsets, b, 0) = Cardinality({k \in Inserted : k \div 64 < b})

\* C7: throughout InitIndexBitmap on the zero-valued struct with a strictly
\* ascending list, after every appendIndex: Cnt is the number of keys inserted,
\* Offsets[b] of every non-zero word b is the number of inserted keys in the
\* words below b, and Offsets[b] of a non-zero word is not written again.
C7_BlockBase ==
    [][(fresh' /\ StrictlyAscending(index')) =>
           /\ BlockBase'
           /\ fresh => \A b \in DOMAIN Bitmaps.at : At(Offsets', b, 0) = At(Offsets, b, 0)
      ]_vars

\* three keys were inserted, two of them into one word, the third into a
\* later word whose offset is 2
C7_Witness ==
    /\ fresh /\ StrictlyAscending(index) /\ i = 3
    /\ \E b \in DOMAIN Bitmaps.at : At(Offsets, b, 0) = 2
    /\ \E b \in DOMAIN Bitmaps.at : Cardinality(Bitmaps.at[b]) = 2

\* the 1-based place of the first key that is not above its predecessor
FirstOffender(ix) ==
    CHOOSE p \in 2..Len(ix) :
        /\ ix[p] <= ix[p - 1]
        /\ \A r \in 2..(p - 1) : ix[r] > ix[r - 1]

\* C8: for a list of non-negative keys (too small to make the capacity
\* arithmetic wrap) whose first violation of strict ascent is at (0-based)
\* position j, InitIndexBitmap returns ErrIndexNotAscending with exactly the
\* keys at positions 0..j-1 inserted and Cnt increased by j.
C8_FirstOffender ==
    (Finished /\ NonNegative(index) /\ NoWrap(index) /\ ~StrictlyAscending(index)) =>
        LET j == FirstOffender(index) - 1
        IN  /\ err = "ErrIndexNotAscending"
            /\ i = j
            /\ Cnt = Cnt0 + j
            /\ PresentKeys = {index[r] : r \in 1..j}

C10_Independent ==
    (Built /\ StrictlyAscending(index)) =>
        /\ Cnt = Len(index)
        /\ \A k \in Keys(index) : GetEltIndex(k) = Returned(Rank(index, k), TRUE)

====
